---- MODULE Spec2Model ----
(***************************************************************************)
(* State-machine model of salary_setting_form.js: the seven record         *)
(* sections of the salary-setting form, their hidden canonical-form        *)
(* fields, the Basic Components total display, the lock controller and the *)
(* submit gate.                                                            *)
(*                                                                         *)
(* Representation.                                                         *)
(*   - A text (a DOM value, a textContent) is a sequence of one-character  *)
(*     strings; "" is << >>.                                               *)
(*   - A JavaScript number is an integer counting thousandths (60 is       *)
(*     60000, 39.994 is 39994), so arithmetic is exact decimal arithmetic  *)
(*     at a resolution ten times finer than the two decimals the form      *)
(*     shows.  The result of parseFloat/parseInt is a record               *)
(*     [nan |-> BOOLEAN, v |-> thousandths].                               *)
(*   - A parsed JSON object entry is a TLA+ record whose DOMAIN is the set *)
(*     of keys present; a JSON array is a sequence; a JSON object with     *)
(*     computed keys is a sequence of [key, val] pairs in insertion order. *)
(***************************************************************************)
EXTENDS Integers, Sequences, FiniteSets, TLC

\* ------------------------------------------------------------------------
\* Bounds of the model
\* ------------------------------------------------------------------------

\* user events (add, remove, edit, submit, hidden-field change) per run
MaxEvents == 2

\* ------------------------------------------------------------------------
\* Texts
\* ------------------------------------------------------------------------

Digits == <<"0", "1", "2", "3", "4", "5", "6", "7", "8", "9">>

Upper == <<"A", "B", "C", "D", "E", "F", "G", "H", "I", "J", "K", "L", "M",
           "N", "O", "P", "Q", "R", "S", "T", "U", "V", "W", "X", "Y", "Z">>

Lower == <<"a", "b", "c", "d", "e", "f", "g", "h", "i", "j", "k", "l", "m",
           "n", "o", "p", "q", "r", "s", "t", "u", "v", "w", "x", "y", "z">>

IndexIn(c, alphabet) ==
    IF \E i \in 1..Len(alphabet) : alphabet[i] = c
    THEN CHOOSE i \in 1..Len(alphabet) : alphabet[i] = c
    ELSE 0

IsSpace(c) == c = " "

IsDigit(c) == IndexIn(c, Digits) > 0

\* String.prototype.trim
RECURSIVE TrimLeft(_)
TrimLeft(s) ==
    IF s # << >> /\ IsSpace(Head(s)) THEN TrimLeft(Tail(s)) ELSE s

RECURSIVE TrimRight(_)
TrimRight(s) ==
    IF s # << >> /\ IsSpace(s[Len(s)])
    THEN TrimRight(SubSeq(s, 1, Len(s) - 1))
    ELSE s

Trim(s) == TrimRight(TrimLeft(s))

\* String.prototype.toLowerCase
ToLowerCase(s) ==
    [i \in 1..Len(s) |->
        IF IndexIn(s[i], Upper) > 0 THEN Lower[IndexIn(s[i], Upper)] ELSE s[i]]

\* s.replace(/\s+/g, '_'): every maximal run of whitespace becomes one '_'
RECURSIVE ReplaceSpaceRuns(_)
ReplaceSpaceRuns(s) ==
    IF s = << >> THEN << >>
    ELSE IF IsSpace(Head(s))
         THEN <<"_">> \o ReplaceSpaceRuns(TrimLeft(s))
         ELSE <<Head(s)>> \o ReplaceSpaceRuns(Tail(s))

\* escapeHtml: the five markup characters become entity tokens
EscapeHtml(s) ==
    [i \in 1..Len(s) |->
        CASE s[i] = "&" -> "&amp;"
          [] s[i] = "<" -> "&lt;"
          [] s[i] = ">" -> "&gt;"
          [] s[i] = "\"" -> "&quot;"
          [] s[i] = "'" -> "&#039;"
          [] OTHER -> s[i]]

\* the value an input gets from the value="..." attribute of the template
\* markup: the HTML parser turns each character reference back into its
\* character
AttributeValue(t) ==
    [i \in 1..Len(t) |->
        CASE t[i] = "&amp;" -> "&"
          [] t[i] = "&lt;" -> "<"
          [] t[i] = "&gt;" -> ">"
          [] t[i] = "&quot;" -> "\""
          [] t[i] = "&#039;" -> "'"
          [] OTHER -> t[i]]

\* ------------------------------------------------------------------------
\* Numbers (thousandths)
\* ------------------------------------------------------------------------

\* thousandths per unit
Unit == 10 * 10 * 10

NaN == [nan |-> TRUE, v |-> 0]

Num(n) == [nan |-> FALSE, v |-> n]

\* length of the run of digits of s that starts at position i
RECURSIVE DigitRun(_, _)
DigitRun(s, i) ==
    IF i <= Len(s) /\ IsDigit(s[i]) THEN 1 + DigitRun(s, i + 1) ELSE 0

\* the natural number written by the digit text d
RECURSIVE DigitsValue(_)
DigitsValue(d) ==
    IF d = << >> THEN 0
    ELSE 10 * DigitsValue(SubSeq(d, 1, Len(d) - 1)) + (IndexIn(d[Len(d)], Digits) - 1)

\* the fraction digits f as thousandths: the first three digits, padded
FractionValue(f) ==
    LET d(i) == IF i <= Len(f) THEN IndexIn(f[i], Digits) - 1 ELSE 0
    IN  100 * d(1) + 10 * d(2) + d(3)

\* the text after an optional sign
Unsigned(t) == IF t # << >> /\ Head(t) \in {"-", "+"} THEN Tail(t) ELSE t

IsNegative(t) == t # << >> /\ Head(t) = "-"

Signed(neg, mag) == IF neg THEN 0 - mag ELSE mag

\* the digits after the point that follows the n1 leading digits of u, if any
FractionRun(u, n1) ==
    IF Len(u) > n1 /\ u[n1 + 1] = "." THEN DigitRun(u, n1 + 2) ELSE 0

\* the number written by n1 digits, and n2 more digits after a point
FloatOf(neg, u, n1, n2) ==
    IF n1 + n2 = 0 THEN NaN
    ELSE Num(Signed(neg, Unit * DigitsValue(SubSeq(u, 1, n1))
                         + FractionValue(SubSeq(u, n1 + 2, n1 + 1 + n2))))

FloatAt(neg, u, n1) == FloatOf(neg, u, n1, FractionRun(u, n1))

FloatOfTrimmed(t) == FloatAt(IsNegative(t), Unsigned(t), DigitRun(Unsigned(t), 1))

\* parseFloat: leading whitespace skipped, optional sign, digits, optional
\* fraction; NaN when no digit is read.  Exponents are not modelled.
ParseFloat(s) == FloatOfTrimmed(TrimLeft(s))

IntOf(neg, u, n1) ==
    IF n1 = 0 THEN NaN
    ELSE Num(Signed(neg, Unit * DigitsValue(SubSeq(u, 1, n1))))

IntOfTrimmed(t) == IntOf(IsNegative(t), Unsigned(t), DigitRun(Unsigned(t), 1))

\* parseInt (radix 10): leading whitespace skipped, optional sign, digits;
\* NaN when no digit is read; whatever follows the digits is ignored
ParseInt(s) == IntOfTrimmed(TrimLeft(s))

\* x || dflt for a number x: NaN and 0 are falsy
NumberOr(x, dflt) == IF x.nan \/ x.v = 0 THEN dflt ELSE x.v

\* the decimal digits of the natural number n
RECURSIVE NatToText(_)
NatToText(n) ==
    IF n < 10 THEN <<Digits[n + 1]>>
    ELSE NatToText(n \div 10) \o <<Digits[(n % 10) + 1]>>

\* String(n), as a template literal interpolates a number: no trailing zeros
\* after the point, no point for an integer
NumberToString(n) ==
    LET mag == IF n < 0 THEN 0 - n ELSE n
        frac == mag % Unit
        fd == <<Digits[(frac \div 100) + 1], Digits[((frac \div 10) % 10) + 1],
                Digits[(frac % 10) + 1]>>
        keep == IF frac % 10 # 0 THEN 3 ELSE IF frac % 100 # 0 THEN 2 ELSE 1
    IN  (IF n < 0 THEN <<"-">> ELSE << >>)
        \o NatToText(mag \div Unit)
        \o (IF frac = 0 THEN << >> ELSE <<".">> \o SubSeq(fd, 1, keep))

\* a valid floating-point number: optional '-', then n1 digits, then
\* optionally '.' and n2 >= 1 digits, and nothing else
ValidFloatShape(u, n1, n2) ==
    /\ n1 + n2 > 0
    /\ Len(u) = n1 + (IF Len(u) > n1 /\ u[n1 + 1] = "." THEN 1 + n2 ELSE 0)
    /\ (Len(u) > n1 /\ u[n1 + 1] = ".") => n2 > 0

ValidFloatAt(u, n1) == ValidFloatShape(u, n1, FractionRun(u, n1))

ValidUnsigned(u) == ValidFloatAt(u, DigitRun(u, 1))

IsValidFloat(s) == ValidUnsigned(IF IsNegative(s) THEN Tail(s) ELSE s)

\* the value of an <input type="number">: the value sanitization algorithm
\* keeps a valid floating-point number and makes anything else the empty text
NumberInputValue(s) == IF IsValidFloat(s) THEN s ELSE << >>

\* Number.prototype.toFixed(2) of n >= 0: the nearest number of hundredths
\* (the larger one on a tie), always with two decimals
ToFixed2(n) ==
    LET h == (n + 5) \div 10
    IN  NatToText(h \div 100)
        \o <<".", Digits[((h \div 10) % 10) + 1], Digits[(h % 10) + 1]>>

\* ------------------------------------------------------------------------
\* Sections, parsed data and the text of a hidden field
\* ------------------------------------------------------------------------

Sections == {"basic", "allowances", "reliefs", "brackets", "statutory",
             "other", "income"}

\* the order in which loadExistingData and the submit handler go through
\* the sections
SectionOrder == <<"basic", "allowances", "reliefs", "brackets", "statutory",
                  "other", "income">>

\* data = null: add...() called without argument
NoData == [nodata |-> TRUE]

Has(data, f) == f \in DOMAIN data

\* data?.f || dflt for a text field, data?.f ?? dflt for a number field
Get(data, f, dflt) == IF Has(data, f) THEN data[f] ELSE dflt

\* ${data?.f ?? ''} for a number field
NumberOrBlank(data, f) ==
    IF Has(data, f) THEN NumberToString(data[f]) ELSE << >>

\* ${escapeHtml(data?.f || dflt)} inside value="...", read back as the value
TextOr(data, f, dflt) ==
    LET t == Get(data, f, << >>)
    IN  AttributeValue(EscapeHtml(IF t = << >> THEN dflt ELSE t))

\* the value of a <select> whose option equal to wanted carries `selected`:
\* without a selected option the first option is the value
SelectValue(options, wanted) ==
    IF \E i \in 1..Len(options) : options[i] = wanted THEN wanted ELSE options[1]

\* The text of a hidden field: '' (kind "empty"), text JSON.parse rejects
\* (kind "unparseable"), or JSON text, represented by the data it denotes
\* (kind "object": pairs [key, val] in insertion order; kind "array": the
\* elements in order).  JSON.stringify(x, null, 2) is TextOfObject/TextOfArray.
EmptyText == [kind |-> "empty", val |-> << >>]

UnparseableText == [kind |-> "unparseable", val |-> << >>]

TextOfObject(pairs) == [kind |-> "object", val |-> pairs]

TextOfArray(elems) == [kind |-> "array", val |-> elems]

\* a variant in which a key that is already there keeps its value
ObjectPutKeepingFirst(pairs, key, val) ==
    IF \E i \in 1..Len(pairs) : pairs[i].key = key
    THEN pairs
    ELSE Append(pairs, [key |-> key, val |-> val])

\* components[key] = val on an object kept as insertion-ordered pairs: an
\* existing key keeps its place and takes the new value
ObjectPut(pairs, key, val) ==
    IF \E i \in 1..Len(pairs) : pairs[i].key = key
    THEN [i \in 1..Len(pairs) |->
            IF pairs[i].key = key THEN [key |-> key, val |-> val] ELSE pairs[i]]
    ELSE Append(pairs, [key |-> key, val |-> val])

\* a record over exactly the fields in dom, taken from the record all
Restrict(all, dom) == [f \in dom |-> all[f]]

\* ------------------------------------------------------------------------
\* Basic Components
\* ------------------------------------------------------------------------

\* |totalPercentage - 100| < 0.01 and |total - 100| > 0.01
Tolerance == 10

Hundred == 100 * Unit

\* the sample salary of the example amount, in naira
SampleSalary == 500000

Abs(n) == IF n < 0 THEN 0 - n ELSE n

\* the item addBasicComponent(data) creates; amount is the number shown in
\* .comp-amount, in naira (initially 0.00)
BasicItem(data, id) ==
    [id |-> id,
     name |-> TextOr(data, "name", << >>),
     code |-> TextOr(data, "code", << >>),
     percentage |-> NumberInputValue(NumberOrBlank(data, "percentage")),
     amount |-> 0]

\* parseFloat(value) || 0
BasicPercentage(item) == NumberOr(ParseFloat(item.percentage), 0)

\* a variant that asks for the name only: if (name)
BasicIncludedNameOnly(item) == Trim(item.name) # << >>

\* if (name && code)
BasicIncluded(item) == Trim(item.name) # << >> /\ Trim(item.code) # << >>

\* name.toLowerCase().replace(/\s+/g, '_')
BasicKey(name) == ReplaceSpaceRuns(ToLowerCase(name))

\* one step of the forEach of updateBasicComponentsJSON: the components
\* object and totalPercentage after an included item
BasicStep(before, name, code, percentage) ==
    [components |->
         ObjectPut(before.components, BasicKey(name),
                   [code |-> code, percentage |-> percentage, name |-> name]),
     total |-> before.total + percentage]

\* the forEach of updateBasicComponentsJSON over the items: the components
\* object and totalPercentage
RECURSIVE BasicCollect(_)
BasicCollect(its) ==
    IF its = << >> THEN [components |-> << >>, total |-> 0]
    ELSE IF BasicIncluded(its[Len(its)])
         THEN BasicStep(BasicCollect(SubSeq(its, 1, Len(its) - 1)),
                        Trim(its[Len(its)].name), Trim(its[Len(its)].code),
                        BasicPercentage(its[Len(its)]))
         ELSE BasicCollect(SubSeq(its, 1, Len(its) - 1))

\* (500000 * percentage) / 100 for an included item, 0.00 otherwise (the
\* division by 100 is done first to stay within TLC's integers; it is exact)
BasicAmount(item) ==
    IF BasicIncluded(item)
    THEN ((SampleSalary \div 100) * BasicPercentage(item)) \div Unit
    ELSE 0

\* Math.abs(totalPercentage - 100) < 0.01
TotalClass(total) ==
    IF Abs(total - Hundred) < Tolerance THEN "percentage-valid"
    ELSE "percentage-invalid"

\* updateContainerState: container.children.length > 0
ContainerState(its) == Len(its) > 0

\* a variant that also writes the derived key back into the name input
BasicWrittenNormalizing(its, c) ==
    [items |-> [i \in 1..Len(its) |->
                   [its[i] EXCEPT !.amount = BasicAmount(its[i]),
                                  !.name = BasicKey(Trim(its[i].name))]],
     hidden |-> TextOfObject(c.components),
     totalText |-> ToFixed2(c.total),
     totalClass |-> TotalClass(c.total),
     hasItems |-> ContainerState(its)]

\* what updateBasicComponentsJSON writes, given what its forEach collected
BasicWritten(its, c) ==
    [items |-> [i \in 1..Len(its) |->
                   [its[i] EXCEPT !.amount = BasicAmount(its[i])]],
     hidden |-> TextOfObject(c.components),
     totalText |-> ToFixed2(c.total),
     totalClass |-> TotalClass(c.total),
     hasItems |-> ContainerState(its)]

\* a variant that removes the items it does not serialize
UpdateBasicDroppingExcluded(its) ==
    BasicWritten(SelectSeq(its, BasicIncluded), BasicCollect(its))

\* updateBasicComponentsJSON: the items with their example amounts, the text
\* written to the hidden field, the total display and the container state
UpdateBasicComponentsJSON(its) == BasicWritten(its, BasicCollect(its))

\* ------------------------------------------------------------------------
\* Allowances
\* ------------------------------------------------------------------------

CalcTypes == <<"percentage", "fixed">>

\* based_on of a new allowance: data?.based_on || 'TOTAL'
sTOTAL == <<"T", "O", "T", "A", "L">>

\* the item addAllowance(data) creates; pctShown / fixedShown are the
\* display of .percentage-fields / .fixed-fields (block = TRUE)
AllowanceItem(data, id) ==
    [id |-> id,
     name |-> TextOr(data, "name", << >>),
     calcType |-> SelectValue(CalcTypes, Get(data, "calculation_type", "")),
     active |-> Get(data, "is_active", TRUE) # FALSE,
     annual |-> Get(data, "annual_only", FALSE),
     percentage |-> NumberInputValue(NumberOrBlank(data, "percentage")),
     basedOn |-> TextOr(data, "based_on", sTOTAL),
     fixedAmount |-> NumberInputValue(NumberOrBlank(data, "fixed_amount")),
     pctShown |-> Get(data, "calculation_type", "") # "fixed",
     fixedShown |-> Get(data, "calculation_type", "") = "fixed"]

\* a variant of the listener that also empties the inputs of the subgroup
\* it hides
AllowanceToggleClearing(item) ==
    [item EXCEPT !.pctShown = (item.calcType = "percentage"),
                 !.fixedShown = (item.calcType = "fixed"),
                 !.percentage = IF item.calcType = "percentage" THEN @ ELSE << >>,
                 !.basedOn = IF item.calcType = "percentage" THEN @ ELSE << >>,
                 !.fixedAmount = IF item.calcType = "fixed" THEN @ ELSE << >>]

\* the change listener of .allow-calc-type
AllowanceToggle(item) ==
    [item EXCEPT !.pctShown = (item.calcType = "percentage"),
                 !.fixedShown = (item.calcType = "fixed")]

\* a variant that sets every field that has a value, whatever the type
AllowanceObjectAllGroups(item, percentage, basedOn, fixedAmount) ==
    Restrict([name |-> Trim(item.name),
              is_active |-> item.active,
              calculation_type |-> item.calcType,
              annual_only |-> item.annual,
              percentage |-> percentage.v,
              based_on |-> basedOn,
              fixed_amount |-> fixedAmount.v],
        {"name", "is_active", "calculation_type", "annual_only"}
        \cup (IF ~percentage.nan THEN {"percentage"} ELSE {})
        \cup (IF basedOn # << >> THEN {"based_on"} ELSE {})
        \cup (IF ~fixedAmount.nan THEN {"fixed_amount"} ELSE {}))

\* the allowance object for the parsed percentage, the trimmed based-on and
\* the parsed fixed amount of the item
AllowanceObject(item, percentage, basedOn, fixedAmount) ==
    Restrict([name |-> Trim(item.name),
              is_active |-> item.active,
              calculation_type |-> item.calcType,
              annual_only |-> item.annual,
              percentage |-> percentage.v,
              based_on |-> basedOn,
              fixed_amount |-> fixedAmount.v],
        {"name", "is_active", "calculation_type", "annual_only"}
        \cup (IF item.calcType = "percentage" /\ ~percentage.nan
              THEN {"percentage"} ELSE {})
        \cup (IF item.calcType = "percentage" /\ basedOn # << >>
              THEN {"based_on"} ELSE {})
        \cup (IF item.calcType # "percentage" /\ ~fixedAmount.nan
              THEN {"fixed_amount"} ELSE {}))

\* the object updateAllowancesJSON pushes for an item with a name
AllowanceEntry(item) ==
    AllowanceObject(item, ParseFloat(item.percentage), Trim(item.basedOn),
                    ParseFloat(item.fixedAmount))

\* if (!name) return
HasName(item) == Trim(item.name) # << >>

\* ------------------------------------------------------------------------
\* Tax reliefs
\* ------------------------------------------------------------------------

FormulaTypes == <<"percentage_plus_fixed", "percentage", "fixed">>

\* based_on of a new relief: data?.based_on || 'gross_income'
sGrossIncome == <<"g", "r", "o", "s", "s", "_", "i", "n", "c", "o", "m", "e">>

\* the item addRelief(data) creates
ReliefItem(data, id) ==
    [id |-> id,
     name |-> TextOr(data, "name", << >>),
     formulaType |-> SelectValue(FormulaTypes, Get(data, "formula_type", "")),
     active |-> Get(data, "is_active", TRUE) # FALSE,
     percentage |-> NumberInputValue(NumberOrBlank(data, "percentage")),
     basedOn |-> TextOr(data, "based_on", sGrossIncome),
     fixedAmount |-> NumberInputValue(NumberOrBlank(data, "fixed_amount")),
     pctShown |-> Get(data, "formula_type", "") # "fixed",
     fixedShown |-> Get(data, "formula_type", "") # "percentage"]

\* the change listener of .relief-formula-type
ReliefToggle(item) ==
    [item EXCEPT
        !.pctShown = item.formulaType \in {"percentage", "percentage_plus_fixed"},
        !.fixedShown = item.formulaType \in {"fixed", "percentage_plus_fixed"}]

\* the relief object for the parsed percentage, the trimmed based-on and the
\* parsed fixed amount of the item
ReliefObject(item, percentage, basedOn, fixedAmount) ==
    Restrict([name |-> Trim(item.name),
              is_active |-> item.active,
              formula_type |-> item.formulaType,
              percentage |-> percentage.v,
              based_on |-> basedOn,
              fixed_amount |-> fixedAmount.v],
        {"name", "is_active", "formula_type"}
        \cup (IF item.formulaType # "fixed" /\ ~percentage.nan
              THEN {"percentage"} ELSE {})
        \cup (IF item.formulaType # "fixed" /\ basedOn # << >>
              THEN {"based_on"} ELSE {})
        \cup (IF item.formulaType # "percentage" /\ ~fixedAmount.nan
              THEN {"fixed_amount"} ELSE {}))

\* the object updateReliefsJSON pushes for an item with a name
ReliefEntry(item) ==
    ReliefObject(item, ParseFloat(item.percentage), Trim(item.basedOn),
                 ParseFloat(item.fixedAmount))

\* ------------------------------------------------------------------------
\* Tax brackets
\* ------------------------------------------------------------------------

\* the item addTaxBracket(data) creates; a limit of null is absent from the
\* parsed entry
BracketItem(data, id) ==
    [id |-> id,
     limit |-> NumberInputValue(NumberOrBlank(data, "limit")),
     rate |-> NumberInputValue(NumberOrBlank(data, "rate"))]

\* if (!isNaN(rate))
BracketIncluded(item) == ~ParseFloat(item.rate).nan

\* limit: limitInput === '' ? null : parseFloat(limitInput); a null limit
\* is the entry without the field limit
BracketObject(limitInput, rate) ==
    Restrict([limit |-> ParseFloat(limitInput).v, rate |-> rate.v],
             {"rate"} \cup (IF limitInput = << >> THEN {} ELSE {"limit"}))

BracketEntry(item) == BracketObject(Trim(item.limit), ParseFloat(item.rate))

\* ------------------------------------------------------------------------
\* Statutory deductions
\* ------------------------------------------------------------------------

\* based_on of a statutory deduction: data?.based_on || 'B', basedOn || 'B'
sB == <<"B">>

\* the item addStatutoryDeduction(data) creates
StatutoryItem(data, id) ==
    [id |-> id,
     name |-> TextOr(data, "name", << >>),
     percentage |-> NumberInputValue(NumberOrBlank(data, "percentage")),
     basedOn |-> TextOr(data, "based_on", sB),
     active |-> Get(data, "is_active", TRUE) # FALSE]

\* a variant that includes every named item
StatutoryIncludedNameOnly(item) == Trim(item.name) # << >>

\* if (name && !isNaN(percentage))
StatutoryIncluded(item) ==
    Trim(item.name) # << >> /\ ~ParseFloat(item.percentage).nan

StatutoryObject(item, basedOn) ==
    [name |-> Trim(item.name),
     is_active |-> item.active,
     percentage |-> ParseFloat(item.percentage).v,
     based_on |-> IF basedOn = << >> THEN sB ELSE basedOn]

StatutoryEntry(item) == StatutoryObject(item, Trim(item.basedOn))

\* ------------------------------------------------------------------------
\* Other deductions and income items
\* ------------------------------------------------------------------------

DisplayRules == <<"show_if_filled", "always_show">>

\* the options of .other-linked-to; "" is None (Manual)
LinkOptions == <<"", "staff_loan", "salary_advance">>

\* the item addOtherDeduction(data) creates
OtherItem(data, id) ==
    [id |-> id,
     name |-> TextOr(data, "name", << >>),
     displayRule |-> SelectValue(DisplayRules, Get(data, "display_rule", "")),
     linkedTo |-> SelectValue(LinkOptions, Get(data, "linked_to", "")),
     order |-> NumberInputValue(
                   IF Has(data, "order") THEN NumberToString(data.order)
                   ELSE NumberToString(Unit))]

\* parseInt(value) || 1
OrderOf(item) == NumberOr(ParseInt(item.order), Unit)

OtherEntry(item) ==
    Restrict([name |-> Trim(item.name),
              display_rule |-> item.displayRule,
              order |-> OrderOf(item),
              linked_to |-> item.linkedTo],
        {"name", "display_rule", "order"}
        \cup (IF item.linkedTo # "" THEN {"linked_to"} ELSE {}))

\* the item addIncomeItem(data) creates
IncomeItem(data, id) ==
    [id |-> id,
     name |-> TextOr(data, "name", << >>),
     displayRule |-> SelectValue(DisplayRules, Get(data, "display_rule", "")),
     order |-> NumberInputValue(
                   IF Has(data, "order") THEN NumberToString(data.order)
                   ELSE NumberToString(Unit))]

IncomeEntry(item) ==
    [name |-> Trim(item.name),
     display_rule |-> item.displayRule,
     order |-> OrderOf(item)]

\* the test a list serializer makes before it pushes the object of an item
IncludedIn(sec, item) ==
    CASE sec = "brackets" -> BracketIncluded(item)
      [] sec = "statutory" -> StatutoryIncluded(item)
      [] OTHER -> HasName(item)

\* the object a list serializer pushes for an item
EntryOf(sec, item) ==
    CASE sec = "allowances" -> AllowanceEntry(item)
      [] sec = "reliefs" -> ReliefEntry(item)
      [] sec = "brackets" -> BracketEntry(item)
      [] sec = "statutory" -> StatutoryEntry(item)
      [] sec = "other" -> OtherEntry(item)
      [] sec = "income" -> IncomeEntry(item)

\* the forEach of a list serializer: the objects pushed, in item order
RECURSIVE Collect(_, _)
Collect(sec, its) ==
    IF its = << >> THEN << >>
    ELSE IF IncludedIn(sec, its[Len(its)])
         THEN Append(Collect(sec, SubSeq(its, 1, Len(its) - 1)),
                     EntryOf(sec, its[Len(its)]))
         ELSE Collect(sec, SubSeq(its, 1, Len(its) - 1))

\* what a list serializer writes: JSON.stringify of the objects pushed into
\* the hidden field, and the container state
ListWritten(sec, its) ==
    [items |-> its,
     hidden |-> TextOfArray(Collect(sec, its)),
     hasItems |-> ContainerState(its)]

\* updateAllowancesJSON
UpdateAllowancesJSON(its) == ListWritten("allowances", its)

\* updateReliefsJSON
UpdateReliefsJSON(its) == ListWritten("reliefs", its)

\* updateTaxBracketsJSON
UpdateTaxBracketsJSON(its) == ListWritten("brackets", its)

\* updateStatutoryDeductionsJSON
UpdateStatutoryDeductionsJSON(its) == ListWritten("statutory", its)

\* updateOtherDeductionsJSON
UpdateOtherDeductionsJSON(its) == ListWritten("other", its)

\* updateIncomeItemsJSON
UpdateIncomeItemsJSON(its) == ListWritten("income", its)

\* ------------------------------------------------------------------------
\* The seven sections together
\* ------------------------------------------------------------------------

\* add<Section>(data): the item created, before it is appended
ItemOf(sec, data, id) ==
    CASE sec = "basic" -> BasicItem(data, id)
      [] sec = "allowances" -> AllowanceItem(data, id)
      [] sec = "reliefs" -> ReliefItem(data, id)
      [] sec = "brackets" -> BracketItem(data, id)
      [] sec = "statutory" -> StatutoryItem(data, id)
      [] sec = "other" -> OtherItem(data, id)
      [] sec = "income" -> IncomeItem(data, id)

\* update<Section>JSON on the items of the section
UpdateJSON(sec, its) ==
    CASE sec = "basic" -> UpdateBasicComponentsJSON(its)
      [] sec = "allowances" -> UpdateAllowancesJSON(its)
      [] sec = "reliefs" -> UpdateReliefsJSON(its)
      [] sec = "brackets" -> UpdateTaxBracketsJSON(its)
      [] sec = "statutory" -> UpdateStatutoryDeductionsJSON(its)
      [] sec = "other" -> UpdateOtherDeductionsJSON(its)
      [] sec = "income" -> UpdateIncomeItemsJSON(its)

\* a variant in which attachTaxBracketEvents registers 'change' only
FieldListenersChangeOnly(sec) ==
    IF sec = "brackets" THEN {"change"} ELSE {"input", "change"}

\* the event types the field listeners of a section are registered for:
\* attachTaxBracketEvents registers 'input' only
FieldListeners(sec) ==
    IF sec = "brackets" THEN {"input"} ELSE {"input", "change"}

\* the events a user edit of a control dispatches at once: 'input' when a
\* text or number input is typed into, 'input' and 'change' when a checkbox
\* is clicked or a select option chosen
EventsOfEdit(field) ==
    IF field \in {"calcType", "formulaType", "displayRule", "linkedTo",
                  "active", "annual"}
    THEN {"input", "change"}
    ELSE {"input"}

\* a variant of the submit handler that serializes the first three only
SubmitUpdatesFirstThree == {"basic", "allowances", "reliefs"}

\* the sections the submit handler serializes before it validates
SubmitUpdates == Sections

\* the sections the change listener of the hidden fields serializes
HiddenChangeUpdates == {"basic", "allowances", "reliefs"}

\* ------------------------------------------------------------------------
\* State
\* ------------------------------------------------------------------------

VARIABLES
    phase,            \* "rendered": page rendered, DOMContentLoaded handler
                      \* not yet run; "ready"; "submitted": form sent
    rendered,         \* the hidden-field texts as the server rendered them
    lockSignals,      \* data-locked of the form, value of the is_locked
                      \* input, window.SALARY_SETTING_LOCKED
    editMode,         \* isEditMode of loadExistingData
    items,            \* per section, the .component-item elements in order
    hidden,           \* per section, the value of the hidden field
    hasItems,         \* per section, the has-items class of the container
    totalText,        \* textContent of #totalPercentage
    totalClass,       \* className of #totalPercentage
    componentCounter, \* componentCounter
    locked,           \* disableEditing has run
    submitResult,     \* outcome of the last submit event and the message shown
    lastEvent,        \* the event processed last
    prevHidden,       \* the hidden-field texts before the event processed last
    budget            \* events left in this run

vars == <<phase, rendered, lockSignals, editMode, items, hidden, hasItems,
          totalText, totalClass, componentCounter, locked, submitResult,
          lastEvent, prevHidden, budget>>

\* an event: its kind, the section and the position of the item it is
\* about, and for an edit the control and the value the control had before
NoEvent == [kind |-> "none", sec |-> "", idx |-> 0, field |-> "", old |-> ""]

Event(kind, sec, idx, field) ==
    [kind |-> kind, sec |-> sec, idx |-> idx, field |-> field, old |-> ""]

EditEvent(sec, idx, field, old) ==
    [kind |-> "edit", sec |-> sec, idx |-> idx, field |-> field, old |-> old]

NoSubmit == [outcome |-> "none", message |-> << >>]

\* ------------------------------------------------------------------------
\* Initialization: loadExistingData, isFormLocked, disableEditing
\* ------------------------------------------------------------------------

\* isEditMode = hiddenBasicComponents.value && value !== '{}'
IsEditMode(text) ==
    text.kind # "empty" /\ ~(text.kind = "object" /\ text.val = << >>)

\* null as an entry of the parsed text
IsNull(d) == "nodata" \in DOMAIN d

\* Object.values of the parsed basic components: the values of an object, the
\* elements of an array
Values(text) ==
    IF text.kind = "object" THEN [i \in 1..Len(text.val) |-> text.val[i].val]
    ELSE text.val

\* {name: comp.name, code: comp.code, percentage: comp.percentage}
BasicData(comp) ==
    IF IsNull(comp) THEN comp
    ELSE Restrict(comp, DOMAIN comp \cap {"name", "code", "percentage"})

\* the data handed to add<Section> for each entry of the parsed text: for
\* basic components {name, code, percentage} of each value of the object
EntryData(sec, text) ==
    IF sec = "basic"
    THEN [i \in 1..Len(text.val) |-> BasicData(Values(text)[i])]
    ELSE text.val

\* the container kinds whose entries the try block of a section adds:
\* Object.keys and Object.values take an array as well, Array.isArray does
\* not take an object
ShapesOf(sec) == IF sec = "basic" THEN {"object", "array"} ELSE {"array"}

\* the number of entries the forEach adds before it throws: comp.name of a
\* null value of the basic components is a TypeError; data?.name of a null
\* element of a list is undefined
Taken(sec, data) ==
    IF sec = "basic" /\ \E i \in 1..Len(data) : IsNull(data[i])
    THEN (CHOOSE i \in 1..Len(data) :
             IsNull(data[i]) /\ \A k \in 1..(i - 1) : ~IsNull(data[k])) - 1
    ELSE Len(data)

\* if (!isEditMode) add<Section>()
Seeded(sec, isEdit, counter) ==
    IF isEdit THEN << >> ELSE <<ItemOf(sec, NoData, counter + 1)>>

\* the items of a section after the forEach over its entries added the first
\* `taken` of them and, when it threw, the catch block ran
AfterForEach(sec, data, taken, isEdit, counter) ==
    [i \in 1..taken |-> ItemOf(sec, data[i], counter + i)]
    \o (IF taken < Len(data) THEN Seeded(sec, isEdit, counter + taken)
        ELSE << >>)

\* a variant that adds the default item without looking at isEditMode
LoadSectionSeedAlways(sec, text, isEdit, counter) ==
    IF text.kind \in ShapesOf(sec) /\ Len(text.val) > 0
    THEN AfterForEach(sec, EntryData(sec, text),
                      Taken(sec, EntryData(sec, text)), isEdit, counter)
    ELSE Seeded(sec, FALSE, counter)

\* one try/catch block of loadExistingData: the items added to the section,
\* numbered from counter + 1.  Entries are added when the text parses to a
\* non-empty container the block takes; otherwise (empty text, empty
\* container, other shape, parse error) one default item unless isEditMode
LoadSection(sec, text, isEdit, counter) ==
    IF text.kind \in ShapesOf(sec) /\ Len(text.val) > 0
    THEN AfterForEach(sec, EntryData(sec, text),
                      Taken(sec, EntryData(sec, text)), isEdit, counter)
    ELSE Seeded(sec, isEdit, counter)

\* the items of the sections loaded so far, with those of one more section
WithSection(before, sec, its) ==
    [items |-> [s \in (DOMAIN before.items) \cup {sec} |->
                   IF s = sec THEN its ELSE before.items[s]],
     counter |-> before.counter + Len(its)]

\* a variant in which each try block looks at the input of its own section
\* to decide whether the default item is added
LoadNextOwnInput(texts, isEdit, sec, before) ==
    WithSection(before, sec,
                LoadSection(sec, texts[sec], IsEditMode(texts[sec]), before.counter))

\* one section of loadExistingData after those before it: isEditMode is the
\* constant computed at line 792
LoadNext(texts, isEdit, sec, before) ==
    WithSection(before, sec, LoadSection(sec, texts[sec], isEdit, before.counter))

\* the items of every section after loadExistingData went through the first
\* k sections, and the value of componentCounter
RECURSIVE LoadAll(_, _, _)
LoadAll(texts, isEdit, k) ==
    IF k = 0 THEN [items |-> [s \in {} |-> << >>], counter |-> 0]
    ELSE LoadNext(texts, isEdit, SectionOrder[k], LoadAll(texts, isEdit, k - 1))

\* a variant in which the first source that is present decides
IsFormLockedFirstPresent(signals) ==
    IF signals.formFlag # "absent" THEN signals.formFlag = "true"
    ELSE IF signals.input.present
         THEN ToLowerCase(signals.input.value) \in
                  {<<"t", "r", "u", "e">>, <<"1">>, <<"o", "n">>}
         ELSE signals.global = TRUE

\* isFormLocked
IsFormLocked(signals) ==
    \/ signals.formFlag = "true"
    \/ /\ signals.input.present
       /\ ToLowerCase(signals.input.value) \in
              {<<"t", "r", "u", "e">>, <<"1">>, <<"o", "n">>}
    \/ signals.global = TRUE

\* the state after update<Section>JSON has run for the sections of DOMAIN upd
\* (upd[s] is what it wrote for s) on the items its and the hidden texts hid
Written(upd, its, hid) ==
    /\ items' = [s \in Sections |->
                    IF s \in DOMAIN upd THEN upd[s].items ELSE its[s]]
    /\ hidden' = [s \in Sections |->
                     IF s \in DOMAIN upd THEN upd[s].hidden ELSE hid[s]]
    /\ hasItems' = [s \in Sections |->
                       IF s \in DOMAIN upd THEN upd[s].hasItems ELSE hasItems[s]]
    /\ totalText' = IF "basic" \in DOMAIN upd THEN upd["basic"].totalText
                    ELSE totalText
    /\ totalClass' = IF "basic" \in DOMAIN upd THEN upd["basic"].totalClass
                     ELSE totalClass

\* running update<Section>JSON for every section of secs
Serialized(secs, its, hid) ==
    Written([s \in secs |-> UpdateJSON(s, its[s])], its, hid)

\* the sections loadExistingData added an item to
Added(its) == {s \in Sections : Len(its[s]) > 0}

\* loadExistingData: update<Section>JSON runs inside every add, so a section
\* that received no item keeps its hidden text, container state and (basic
\* components) total display as rendered
Loaded(isEdit, loaded) ==
    /\ editMode' = isEdit
    /\ componentCounter' = loaded.counter
    /\ Serialized(Added(loaded.items), loaded.items, hidden)

\* the DOMContentLoaded handler: loadExistingData(), then disableEditing()
\* if isFormLocked()
Initialize ==
    /\ phase = "rendered"
    /\ Loaded(IsEditMode(hidden["basic"]),
              LoadAll(hidden, IsEditMode(hidden["basic"]), Len(SectionOrder)))
    /\ locked' = IsFormLocked(lockSignals)
    /\ phase' = "ready"
    /\ lastEvent' = Event("load", "", 0, "")
    /\ prevHidden' = hidden
    /\ UNCHANGED <<rendered, lockSignals, submitResult, budget>>

\* the elements of the form the user acts on: tag name, type, whether the
\* class list has btn-danger, and whether it is an add or a remove button
Element(tag, type, danger, kind) ==
    [tag |-> tag, type |-> type, danger |-> danger, kind |-> kind]

ItemInput == Element("input", "text", FALSE, "control")

ItemSelect == Element("select", "select-one", FALSE, "control")

HiddenField == Element("input", "hidden", FALSE, "hidden")

AddButton == Element("button", "button", FALSE, "add")

RemoveButton == Element("button", "button", TRUE, "remove")

SubmitButton == Element("button", "submit", FALSE, "submit")

\* the control of an item that holds the field
ControlOf(field) ==
    IF field \in {"calcType", "formulaType", "displayRule", "linkedTo"}
    THEN ItemSelect
    ELSE ItemInput

\* a variant that passes over the hidden inputs as well
KeptEnabledWithHidden(el) ==
    el.type \in {"submit", "hidden"} \/ (el.type = "button" /\ ~el.danger)

\* el.type === 'submit' || el.type === 'button' &&
\* el.classList.contains('btn-danger') === false: the elements the loop of
\* disableEditing passes over
KeptEnabled(el) == el.type = "submit" \/ (el.type = "button" /\ ~el.danger)

\* a variant of disableEditing that leaves the inputs and selects alone
DisabledOrHiddenButtonsOnly(el) == el.kind \in {"add", "remove"}

\* what disableEditing does to an element: the add buttons are disabled by
\* reference, the inputs, selects, textareas and other buttons of the form
\* unless passed over, and everything of class remove-btn is hidden
DisabledOrHidden(el) ==
    \/ el.kind = "add"
    \/ ~KeptEnabled(el) /\ el.tag \in {"input", "select", "textarea", "button"}
    \/ el.kind = "remove"

\* an event of the user on the element reaches its handler: the page is
\* ready and disableEditing has not disabled or hidden the element
Usable(el) ==
    phase = "ready" /\ budget > 0 /\ ~(locked /\ DisabledOrHidden(el))

\* ------------------------------------------------------------------------
\* Events
\* ------------------------------------------------------------------------

\* what every event other than initialization and submit leaves alone
EventFrame(ev) ==
    /\ lastEvent' = ev
    /\ prevHidden' = hidden
    /\ budget' = budget - 1
    /\ UNCHANGED <<phase, rendered, lockSignals, editMode, locked, submitResult>>

\* a variant of add<Section> that numbers the items of each section on
\* their own, by position
AddRecordNumberedPerSection(sec) ==
    /\ Usable(AddButton)
    /\ componentCounter' = componentCounter + 1
    /\ Serialized({sec},
                  [items EXCEPT ![sec] =
                      Append(@, ItemOf(sec, NoData, Len(items[sec]) + 1))],
                  hidden)
    /\ EventFrame(Event("add", sec, Len(items[sec]) + 1, ""))

\* a variant of add<Section> that ends by serializing every section
AddRecordSerializingAll(sec) ==
    /\ Usable(AddButton)
    /\ componentCounter' = componentCounter + 1
    /\ Serialized(Sections,
                  [items EXCEPT ![sec] =
                      Append(@, ItemOf(sec, NoData, componentCounter + 1))],
                  hidden)
    /\ EventFrame(Event("add", sec, Len(items[sec]) + 1, ""))

\* click on an add button: add<Section>()
AddRecord(sec) ==
    /\ Usable(AddButton)
    /\ componentCounter' = componentCounter + 1
    /\ Serialized({sec},
                  [items EXCEPT ![sec] =
                      Append(@, ItemOf(sec, NoData, componentCounter + 1))],
                  hidden)
    /\ EventFrame(Event("add", sec, Len(items[sec]) + 1, ""))

\* a variant in which the click takes the last item of the section away
RemoveRecordLast(sec, i) ==
    /\ Usable(RemoveButton)
    /\ i \in 1..Len(items[sec])
    /\ Serialized({sec},
                  [items EXCEPT ![sec] = SubSeq(@, 1, Len(@) - 1)],
                  hidden)
    /\ EventFrame(Event("remove", sec, i, ""))
    /\ UNCHANGED componentCounter

\* click on the remove button of item i: item.remove(), update<Section>JSON()
RemoveRecord(sec, i) ==
    /\ Usable(RemoveButton)
    /\ i \in 1..Len(items[sec])
    /\ Serialized({sec},
                  [items EXCEPT ![sec] =
                      SubSeq(@, 1, i - 1) \o SubSeq(@, i + 1, Len(@))],
                  hidden)
    /\ EventFrame(Event("remove", sec, i, ""))
    /\ UNCHANGED componentCounter

\* the item after the user gave the control `field` the value `value`, and
\* the change listener of the type select has shown and hidden the subgroups
EditedItem(item, field, value) ==
    LET edited == [item EXCEPT ![field] = value]
    IN  CASE field = "calcType" -> AllowanceToggle(edited)
          [] field = "formulaType" -> ReliefToggle(edited)
          [] OTHER -> edited

\* whether a handler that serializes the section runs on an edit of the
\* control: a field listener registered for a dispatched event, or the
\* change listener of the type select, which serializes itself
EditSerializes(sec, field) ==
    \/ EventsOfEdit(field) \cap FieldListeners(sec) # {}
    \/ field \in {"calcType", "formulaType"}

\* the user changes the value of one control of item i
EditField(sec, i, field, value) ==
    /\ Usable(ControlOf(field))
    /\ i \in 1..Len(items[sec])
    /\ items[sec][i][field] # value
    /\ Serialized(IF EditSerializes(sec, field) THEN {sec} ELSE {},
                  [items EXCEPT ![sec][i] = EditedItem(@, field, value)],
                  hidden)
    /\ EventFrame(EditEvent(sec, i, field, items[sec][i][field]))
    /\ UNCHANGED componentCounter

\* a variant in which the change listener renders the section again from
\* the text put into its hidden field
HiddenChangeReloading(sec, text) ==
    /\ Usable(HiddenField)
    /\ hidden[sec] # text
    /\ Serialized(HiddenChangeUpdates,
                  [items EXCEPT ![sec] =
                      LoadSection(sec, text, editMode, componentCounter)],
                  [hidden EXCEPT ![sec] = text])
    /\ EventFrame(Event("hiddenChange", sec, 0, ""))
    /\ UNCHANGED componentCounter

\* a change event on a hidden field whose value was replaced by text
HiddenChange(sec, text) ==
    /\ Usable(HiddenField)
    /\ hidden[sec] # text
    /\ Serialized(HiddenChangeUpdates, items, [hidden EXCEPT ![sec] = text])
    /\ EventFrame(Event("hiddenChange", sec, 0, ""))
    /\ UNCHANGED componentCounter

\* a variant in which the change of a signal makes the script evaluate the
\* lock state again
SignalsChangeReevaluating(signals) ==
    /\ phase = "ready"
    /\ budget > 0
    /\ lockSignals # signals
    /\ lockSignals' = signals
    /\ locked' = IsFormLocked(signals)
    /\ lastEvent' = Event("signals", "", 0, "")
    /\ prevHidden' = hidden
    /\ budget' = budget - 1
    /\ UNCHANGED <<phase, rendered, editMode, items, hidden, hasItems,
                   totalText, totalClass, componentCounter, submitResult>>

\* something outside this script changes data-locked, the value of the
\* is_locked input or window.SALARY_SETTING_LOCKED after the page is ready;
\* isFormLocked is called nowhere but in the initialization
SignalsChange(signals) ==
    /\ phase = "ready"
    /\ budget > 0
    /\ lockSignals # signals
    /\ lockSignals' = signals
    /\ lastEvent' = Event("signals", "", 0, "")
    /\ prevHidden' = hidden
    /\ budget' = budget - 1
    /\ UNCHANGED <<phase, rendered, editMode, items, hidden, hasItems,
                   totalText, totalClass, componentCounter, locked,
                   submitResult>>

\* Math.abs(total - 100) > 0.01 for the total parsed from the two-decimal
\* text of #totalPercentage.  Exact arithmetic decides it except at a
\* distance of exactly 0.01: in IEEE-754 doubles both 99.99 - 100 and
\* 100.01 - 100 have the magnitude 0.010000000000005116, which is greater
\* than the double 0.01
ExceedsTolerance(v) ==
    \/ Abs(v - Hundred) > Tolerance
    \/ Abs(v - Hundred) = Tolerance

\* isNaN(total) || Math.abs(total - 100) > 0.01
GateBlocks(total) == total.nan \/ ExceedsTolerance(total.v)

\* ${isNaN(total) ? 0 : total.toFixed(2)} of the message of showError
MessageTotal(total) == IF total.nan THEN <<"0">> ELSE ToFixed2(total.v)

\* the validation of the submit handler on the parsed total: prevented with
\* the error shown, or let through, which sends the form
Validated(total) ==
    IF GateBlocks(total)
    THEN /\ submitResult' = [outcome |-> "blocked", message |-> MessageTotal(total)]
         /\ phase' = "ready"
    ELSE /\ submitResult' = [outcome |-> "allowed", message |-> << >>]
         /\ phase' = "submitted"

\* the submit handler: serialize every section, then validate the total
\* read back from #totalPercentage
Submit ==
    /\ Usable(SubmitButton)
    /\ Serialized(SubmitUpdates, items, hidden)
    /\ Validated(ParseFloat(totalText'))
    /\ lastEvent' = Event("submit", "", 0, "")
    /\ prevHidden' = hidden
    /\ budget' = budget - 1
    /\ UNCHANGED <<rendered, lockSignals, editMode, locked, componentCounter>>

\* ------------------------------------------------------------------------
\* Inputs
\* ------------------------------------------------------------------------

sPay == <<"P", "a", "y">>
sPaySpaced == <<" ", "p", "a", "y", " ">>
sMyPay == <<"M", "y", " ", " ", "P", "a", "y">>
sMyPayKey == <<"m", "y", "_", "p", "a", "y">>
sRent == <<"R", "e", "n", "t">>
sRentKey == <<"r", "e", "n", "t">>
sN == <<"N">>
sR == <<"R">>
s0 == <<"0">>
s2 == <<"2">>
s5 == <<"5">>
s30 == <<"3", "0">>
s39994 == <<"3", "9", ".", "9", "9", "4">>

\* the values a user gives a control, per section and field
FieldInputs(sec) ==
    CASE sec = "basic" ->
            ({"name"} \X {<< >>, sPay, sPaySpaced, sMyPay})
            \cup ({"code"} \X {<< >>, sB})
            \cup ({"percentage"} \X {<< >>, s30, s39994})
      [] sec = "allowances" ->
            ({"name"} \X {<< >>, sN})
            \cup ({"calcType"} \X {"percentage", "fixed"})
            \cup ({"active", "annual"} \X BOOLEAN)
            \cup ({"percentage", "fixedAmount"} \X {<< >>, s5})
            \cup ({"basedOn"} \X {<< >>, sB})
      [] sec = "reliefs" ->
            ({"name"} \X {<< >>, sN})
            \cup ({"formulaType"} \X {"percentage_plus_fixed", "percentage", "fixed"})
            \cup ({"active"} \X BOOLEAN)
            \cup ({"percentage", "fixedAmount"} \X {<< >>, s5})
            \cup ({"basedOn"} \X {<< >>, sB})
      [] sec = "brackets" ->
            {"limit", "rate"} \X {<< >>, s5}
      [] sec = "statutory" ->
            ({"name"} \X {<< >>, sN})
            \cup ({"percentage"} \X {<< >>, s5})
            \cup ({"basedOn"} \X {<< >>, sTOTAL})
            \cup ({"active"} \X BOOLEAN)
      [] sec = "other" ->
            ({"name"} \X {<< >>, sN})
            \cup ({"displayRule"} \X {"show_if_filled", "always_show"})
            \cup ({"linkedTo"} \X {"", "staff_loan", "salary_advance"})
            \cup ({"order"} \X {<< >>, s0, s2})
      [] sec = "income" ->
            ({"name"} \X {<< >>, sN})
            \cup ({"displayRule"} \X {"show_if_filled", "always_show"})
            \cup ({"order"} \X {<< >>, s0, s2})

\* a text that parses to a list of one named entry
PastedList ==
    TextOfArray(<<[name |-> sN, display_rule |-> "always_show", order |-> 2 * Unit]>>)

\* the texts pasted into a hidden field
HiddenInputs == {UnparseableText, PastedList}

\* --- what the server renders into the hidden fields ----------------------

Pair(key, val) == [key |-> key, val |-> val]

\* a saved setting: My  Pay 60 % + Rent 40 %
BasicSaved ==
    TextOfObject(<<
        Pair(sMyPayKey, [code |-> sB, percentage |-> 60 * Unit, name |-> sMyPay]),
        Pair(sRentKey, [code |-> sR, percentage |-> 40 * Unit, name |-> sRent])>>)

AllowancesSaved ==
    TextOfArray(<<
        [name |-> sN, is_active |-> TRUE, calculation_type |-> "percentage",
         annual_only |-> FALSE, percentage |-> 10 * Unit, based_on |-> sTOTAL],
        [name |-> sR, is_active |-> FALSE, calculation_type |-> "fixed",
         annual_only |-> TRUE, fixed_amount |-> 200 * Unit]>>)

ReliefsSaved ==
    TextOfArray(<<
        [name |-> sN, is_active |-> TRUE, formula_type |-> "percentage_plus_fixed",
         percentage |-> 20 * Unit, based_on |-> sGrossIncome,
         fixed_amount |-> 200 * Unit]>>)

\* one open-ended bracket (limit null)
BracketsSaved == TextOfArray(<<[rate |-> 24 * Unit]>>)

StatutorySaved ==
    TextOfArray(<<
        [name |-> sN, is_active |-> TRUE, percentage |-> 8 * Unit,
         based_on |-> sB]>>)

OtherSaved ==
    TextOfArray(<<
        [name |-> sN, display_rule |-> "always_show", order |-> 2 * Unit,
         linked_to |-> "staff_loan"]>>)

IncomeSaved ==
    TextOfArray(<<
        [name |-> sN, display_rule |-> "show_if_filled", order |-> 1 * Unit]>>)

\* the create page: every hidden field empty
FreshForm == [s \in Sections |-> EmptyText]

\* the edit page of a saved setting
SavedForm ==
    [s \in Sections |->
        CASE s = "basic" -> BasicSaved
          [] s = "allowances" -> AllowancesSaved
          [] s = "reliefs" -> ReliefsSaved
          [] s = "brackets" -> BracketsSaved
          [] s = "statutory" -> StatutorySaved
          [] s = "other" -> OtherSaved
          [] s = "income" -> IncomeSaved]

RenderedForms == {FreshForm, SavedForm}

NoInput == [present |-> FALSE, value |-> << >>]

InputValue(v) == [present |-> TRUE, value |-> v]

\* no lock signal, and the is_locked input saying "on" beside data-locked="false"
Unlocked == [formFlag |-> "absent", input |-> NoInput, global |-> FALSE]

LockedByInput ==
    [formFlag |-> "false", input |-> InputValue(<<"o", "n">>), global |-> FALSE]

LockScenarios == {Unlocked, LockedByInput}

\* the text of #totalPercentage in the page template
TemplateTotals == {<<"0">>, <<"0", ".", "0", "0">>}

\* ------------------------------------------------------------------------
\* Specification
\* ------------------------------------------------------------------------

InitWith(forms, locks) ==
    /\ phase = "rendered"
    /\ rendered \in forms
    /\ hidden = rendered
    /\ lockSignals \in locks
    /\ editMode = FALSE
    /\ items = [s \in Sections |-> << >>]
    /\ hasItems = [s \in Sections |-> FALSE]
    /\ totalText \in TemplateTotals
    /\ totalClass = ""
    /\ componentCounter = 0
    /\ locked = FALSE
    /\ submitResult = NoSubmit
    /\ lastEvent = NoEvent
    /\ prevHidden = hidden
    /\ budget = MaxEvents

Init == InitWith(RenderedForms, LockScenarios)

Add == \E sec \in Sections : AddRecord(sec)

Remove == \E sec \in Sections : \E i \in 1..Len(items[sec]) : RemoveRecord(sec, i)

Edit ==
    \E sec \in Sections : \E i \in 1..Len(items[sec]) :
        \E fv \in FieldInputs(sec) : EditField(sec, i, fv[1], fv[2])

PasteHidden == \E sec \in Sections : \E text \in HiddenInputs : HiddenChange(sec, text)

Next ==
    \/ Initialize
    \/ Add
    \/ Remove
    \/ Edit
    \/ PasteHidden
    \/ Submit

Spec == Init /\ [][Next]_vars

\* --- initialization alone, over many rendered pages ----------------------

\* a percentage allowance saved after its based-on was cleared
AllowancesNoBasedOn ==
    TextOfArray(<<
        [name |-> sN, is_active |-> TRUE, calculation_type |-> "percentage",
         annual_only |-> FALSE, percentage |-> 10 * Unit]>>)

\* a percentage-only relief and a fixed-only relief
ReliefsSingleGroup ==
    TextOfArray(<<
        [name |-> sN, is_active |-> FALSE, formula_type |-> "percentage",
         percentage |-> 20 * Unit, based_on |-> sB],
        [name |-> sR, is_active |-> TRUE, formula_type |-> "fixed",
         fixed_amount |-> 200 * Unit]>>)

\* a bounded bracket below the open-ended one
BracketsTwo ==
    TextOfArray(<<[limit |-> 300 * Unit, rate |-> 7 * Unit], [rate |-> 24 * Unit]>>)

\* a manual deduction (no linked_to)
OtherManual ==
    TextOfArray(<<
        [name |-> sN, display_rule |-> "show_if_filled", order |-> 1 * Unit],
        [name |-> sR, display_rule |-> "always_show", order |-> 2 * Unit,
         linked_to |-> "salary_advance"]>>)

\* a deduction linked to something the select has no option for
OtherUnknownLink ==
    TextOfArray(<<
        [name |-> sN, display_rule |-> "always_show", order |-> 3 * Unit,
         linked_to |-> "pension"]>>)

\* an income item placed at position 0
IncomeOrderZero ==
    TextOfArray(<<
        [name |-> sN, display_rule |-> "always_show", order |-> 0],
        [name |-> sR, display_rule |-> "show_if_filled", order |-> 1 * Unit]>>)

\* basic components rendered as an array of components
BasicAsArray ==
    TextOfArray(<<[code |-> sB, percentage |-> 60 * Unit, name |-> sPay]>>)

\* basic components with null as the value of the second key
BasicNullValue ==
    TextOfObject(<<
        Pair(sRentKey, [code |-> sR, percentage |-> 40 * Unit, name |-> sRent]),
        Pair(sMyPayKey, NoData)>>)

\* allowances rendered as [null]
AllowancesNullElement == TextOfArray(<<NoData>>)

\* statutory deductions rendered as an object keyed by name
StatutoryAsObject ==
    TextOfObject(<<
        Pair(sN, [name |-> sN, is_active |-> TRUE, percentage |-> 8 * Unit,
                  based_on |-> sB])>>)

RenderedChoices(sec) ==
    CASE sec = "basic" ->
            {EmptyText, TextOfObject(<< >>), BasicSaved, UnparseableText,
             BasicAsArray, BasicNullValue}
      [] sec = "allowances" ->
            {EmptyText, TextOfArray(<< >>), AllowancesSaved, AllowancesNoBasedOn,
             AllowancesNullElement}
      [] sec = "reliefs" -> {EmptyText, ReliefsSaved, ReliefsSingleGroup}
      [] sec = "brackets" -> {EmptyText, BracketsSaved, BracketsTwo, UnparseableText}
      [] sec = "statutory" -> {EmptyText, StatutorySaved, StatutoryAsObject}
      [] sec = "other" -> {EmptyText, OtherSaved, OtherManual, OtherUnknownLink}
      [] sec = "income" ->
            {EmptyText, TextOfArray(<< >>), IncomeSaved, IncomeOrderZero}

LoadForms ==
    [basic : RenderedChoices("basic"), allowances : RenderedChoices("allowances"),
     reliefs : RenderedChoices("reliefs"), brackets : RenderedChoices("brackets"),
     statutory : RenderedChoices("statutory"), other : RenderedChoices("other"),
     income : RenderedChoices("income")]

InitLoad == InitWith(LoadForms, LockScenarios)

NextLoad ==
    \/ Initialize
    \/ Submit

SpecLoad == InitLoad /\ [][NextLoad]_vars

\* --- the lock signals ------------------------------------------------------

\* values of the data-locked attribute: missing, or one of these texts
FormFlags == {"absent", "true", "false", "True"}

\* values of the is_locked input
LockTexts ==
    {<< >>, <<"t", "r", "u", "e">>, <<"T", "R", "U", "E">>, <<"T", "r", "u", "e">>,
     <<"1">>, <<"o", "n">>, <<"O", "n">>, <<"0">>, <<"o", "f", "f">>,
     <<"f", "a", "l", "s", "e">>, <<"y", "e", "s">>, <<" ", "o", "n">>}

LockChoices ==
    [formFlag : FormFlags,
     input : {NoInput} \cup {InputValue(v) : v \in LockTexts},
     global : BOOLEAN]

InitLock == InitWith({FreshForm}, LockChoices)

ChangeSignals == \E signals \in LockScenarios : SignalsChange(signals)

NextLock ==
    \/ Initialize
    \/ ChangeSignals
    \/ Add
    \/ Remove
    \/ Submit

SpecLock == InitLock /\ [][NextLock]_vars

\* ------------------------------------------------------------------------
\* Properties
\* ------------------------------------------------------------------------

\* a text with a character other than white space
NonBlank(t) == \E i \in 1..Len(t) : ~IsSpace(t[i])

\* the percentage of a record as a number, an unparseable one counting as 0
PercentOrZero(t) == IF ParseFloat(t).nan THEN 0 ELSE ParseFloat(t).v

\* the sum of the percentages of the records whose name and code are both
\* non-blank
RECURSIVE IncludedSum(_)
IncludedSum(its) ==
    IF its = << >> THEN 0
    ELSE IncludedSum(Tail(its))
         + (IF NonBlank(its[1].name) /\ NonBlank(its[1].code)
            THEN PercentOrZero(its[1].percentage) ELSE 0)

WithinTolerance(total) == Abs(total - Hundred) < Tolerance

\* the event ev, after which the section s holds the records its, is one
\* that serializes s: submit (all sections), a change of a hidden field
\* (the first three), an add, remove or edit in s, the load if it gave s a
\* record
SerializedBy(ev, s, its) ==
    \/ ev.kind = "submit"
    \/ ev.kind = "hiddenChange" /\ s \in {"basic", "allowances", "reliefs"}
    \/ ev.kind \in {"add", "remove", "edit"} /\ ev.sec = s
    \/ ev.kind = "load" /\ Len(its) > 0

\* C1: after an add, remove or field-edit event in a section (type changes
\* included), the hidden field of that section holds the serialization of
\* the records the section then has.
C1_CanonicalFormFresh ==
    lastEvent.kind \in {"add", "remove", "edit"} =>
        hidden[lastEvent.sec] = UpdateJSON(lastEvent.sec, items[lastEvent.sec]).hidden

\* an edit of a tax bracket has changed the canonical form of the brackets
C1_BracketEdited ==
    /\ lastEvent.kind = "edit"
    /\ lastEvent.sec = "brackets"
    /\ hidden["brackets"] # prevHidden["brackets"]

\* C2 (as claimed): a submit is blocked exactly when the total of the
\* included basic components is not within 0.01 of 100, and the message of a
\* blocked submit shows that total with two decimals.
C2_GateFollowsTolerance ==
    lastEvent.kind = "submit" =>
        /\ (submitResult.outcome = "blocked")
               = (Abs(IncludedSum(items["basic"]) - Hundred) > Tolerance)
        /\ submitResult.outcome = "blocked" =>
               submitResult.message = ToFixed2(IncludedSum(items["basic"]))

Clean(t) == t # << >> /\ Trim(t) = t

AllDistinct(seq) ==
    \A i, j \in 1..Len(seq) : seq[i] = seq[j] => i = j

WellFormedBasic(pairs) ==
    /\ \A i \in 1..Len(pairs) :
          /\ DOMAIN pairs[i].val = {"code", "percentage", "name"}
          /\ Clean(pairs[i].val.name)
          /\ Clean(pairs[i].val.code)
          /\ pairs[i].val.percentage >= 0
          /\ pairs[i].key = ReplaceSpaceRuns(ToLowerCase(pairs[i].val.name))
    /\ AllDistinct([i \in 1..Len(pairs) |-> pairs[i].key])

WellFormedAllowance(e) ==
    /\ {"name", "is_active", "calculation_type", "annual_only"} \subseteq DOMAIN e
    /\ Clean(e.name)
    /\ e.calculation_type \in {"percentage", "fixed"}
    /\ DOMAIN e \subseteq
           {"name", "is_active", "calculation_type", "annual_only"}
           \cup (IF e.calculation_type = "percentage"
                 THEN {"percentage", "based_on"} ELSE {"fixed_amount"})
    /\ "based_on" \in DOMAIN e => Clean(e.based_on)

WellFormedRelief(e) ==
    /\ {"name", "is_active", "formula_type"} \subseteq DOMAIN e
    /\ Clean(e.name)
    /\ e.formula_type \in {"percentage_plus_fixed", "percentage", "fixed"}
    /\ DOMAIN e \subseteq
           {"name", "is_active", "formula_type"}
           \cup (IF e.formula_type # "fixed"
                 THEN {"percentage", "based_on"} ELSE {})
           \cup (IF e.formula_type # "percentage"
                 THEN {"fixed_amount"} ELSE {})
    /\ "based_on" \in DOMAIN e => Clean(e.based_on)

WellFormedBracket(e) ==
    DOMAIN e \in {{"rate"}, {"limit", "rate"}}

WellFormedStatutory(e) ==
    /\ DOMAIN e = {"name", "is_active", "percentage", "based_on"}
    /\ Clean(e.name)
    /\ Clean(e.based_on)

\* order is a whole number from 0 on; a link, when there is one, is named
WellFormedListed(e, optional) ==
    /\ {"name", "display_rule", "order"} \subseteq DOMAIN e
    /\ DOMAIN e \subseteq {"name", "display_rule", "order"} \cup optional
    /\ Clean(e.name)
    /\ e.display_rule \in {"show_if_filled", "always_show"}
    /\ e.order >= 0
    /\ e.order % Unit = 0
    /\ "linked_to" \in DOMAIN e => e.linked_to # ""

WellFormedEntry(sec, e) ==
    CASE sec = "allowances" -> WellFormedAllowance(e)
      [] sec = "reliefs" -> WellFormedRelief(e)
      [] sec = "brackets" -> WellFormedBracket(e)
      [] sec = "statutory" -> WellFormedStatutory(e)
      [] sec = "other" -> WellFormedListed(e, {"linked_to"})
      [] sec = "income" -> WellFormedListed(e, {})

\* a canonical form of the shape of the section
WellFormed(sec, text) ==
    IF sec = "basic"
    THEN text.kind = "object" /\ WellFormedBasic(text.val)
    ELSE /\ text.kind = "array"
         /\ \A i \in 1..Len(text.val) : WellFormedEntry(sec, text.val[i])

\* C4 (as claimed): the editor initialized from a well-formed canonical form
\* of a section writes out, at the load and at a submit with no edit in
\* between, a canonical form equal to it as data.
C4_RoundTrip ==
    lastEvent.kind \in {"load", "submit"} =>
        \A s \in Sections :
            WellFormed(s, rendered[s]) => hidden[s] = rendered[s]

\* C5: when a submit has been processed, every hidden field holds the
\* serialization of the records of its section, the total shown is that of
\* the current basic components, and the decision is the one the gate takes
\* on that total, whatever events came before.
C5_SubmitSerializesAll ==
    lastEvent.kind = "submit" =>
        /\ \A s \in Sections : hidden[s] = UpdateJSON(s, items[s]).hidden
        /\ totalText = ToFixed2(IncludedSum(items["basic"]))
        /\ (submitResult.outcome = "blocked")
               = GateBlocks(ParseFloat(ToFixed2(IncludedSum(items["basic"]))))

\* a submit has replaced text put into a hidden field from outside
C5_AfterExternalChange ==
    /\ lastEvent.kind = "submit"
    /\ \E s \in Sections \ {"basic", "allowances", "reliefs"} :
          /\ prevHidden[s] = UnparseableText
          /\ hidden[s] # UnparseableText

\* --- what the user entered into the records --------------------------------

\* the controls of an item: everything but the example amount the page
\* computes and shows beside a basic component
Entered(item) == Restrict(item, DOMAIN item \ {"amount"})

EnteredSeq(its) == [i \in 1..Len(its) |-> Entered(its[i])]

EnteredAll(all) == [s \in Sections |-> EnteredSeq(all[s])]

WithoutAt(seq, i) == SubSeq(seq, 1, i - 1) \o SubSeq(seq, i + 1, Len(seq))

\* the fields of an item an edit of the control f may change: f itself, and
\* for a type select the display of the two subgroups
TouchedBy(f) ==
    IF f \in {"calcType", "formulaType"} THEN {f, "pctShown", "fixedShown"}
    ELSE {f}

\* a record that has its identifying fields
Identified(sec, item) ==
    CASE sec = "basic" -> NonBlank(item.name) /\ NonBlank(item.code)
      [] sec = "brackets" -> TRUE
      [] OTHER -> NonBlank(item.name)

RECURSIVE IdentifiedOnly(_, _)
IdentifiedOnly(sec, its) ==
    IF its = << >> THEN << >>
    ELSE IF Identified(sec, Head(its))
         THEN <<Head(its)>> \o IdentifiedOnly(sec, Tail(its))
         ELSE IdentifiedOnly(sec, Tail(its))

\* the records of every section after the step are those before it, but for
\* what the event itself does: an add appends one record, a remove takes
\* out the one at its position, an edit changes one control of one record;
\* submit and a change of a hidden field change nothing
RecordsFollowEvent ==
    CASE lastEvent'.kind \in {"submit", "hiddenChange"} ->
            EnteredAll(items') = EnteredAll(items)
      [] lastEvent'.kind = "add" ->
            /\ \A s \in Sections \ {lastEvent'.sec} :
                  EnteredSeq(items'[s]) = EnteredSeq(items[s])
            /\ Len(items'[lastEvent'.sec]) = Len(items[lastEvent'.sec]) + 1
            /\ SubSeq(EnteredSeq(items'[lastEvent'.sec]), 1,
                      Len(items[lastEvent'.sec]))
                   = EnteredSeq(items[lastEvent'.sec])
      [] lastEvent'.kind = "remove" ->
            /\ \A s \in Sections \ {lastEvent'.sec} :
                  EnteredSeq(items'[s]) = EnteredSeq(items[s])
            /\ EnteredSeq(items'[lastEvent'.sec])
                   = WithoutAt(EnteredSeq(items[lastEvent'.sec]), lastEvent'.idx)
      [] lastEvent'.kind = "edit" ->
            /\ \A s \in Sections \ {lastEvent'.sec} :
                  EnteredSeq(items'[s]) = EnteredSeq(items[s])
            /\ Len(items'[lastEvent'.sec]) = Len(items[lastEvent'.sec])
            /\ \A i \in 1..Len(items[lastEvent'.sec]) :
                  \A f \in DOMAIN Entered(items[lastEvent'.sec][i]) :
                      (i # lastEvent'.idx \/ f \notin TouchedBy(lastEvent'.field))
                          => items'[lastEvent'.sec][i][f]
                                 = items[lastEvent'.sec][i][f]
      [] OTHER -> TRUE

\* the canonical form of every section after a submit is what the records
\* with their identifying fields alone would give
ExcludedAreAbsent ==
    lastEvent.kind = "submit" =>
        \A s \in Sections :
            hidden[s] = UpdateJSON(s, IdentifiedOnly(s, items[s])).hidden

\* C6: serializing a section adds, removes, reorders and changes no record;
\* a record without its identifying fields contributes nothing to the
\* canonical form and stays in the section at its position.
C6_SerializerOnlyReads ==
    /\ []ExcludedAreAbsent
    /\ [][RecordsFollowEvent]_vars

\* a basic component with a name and no code, after a submit
C6_NamedWithoutCode ==
    /\ lastEvent.kind = "submit"
    /\ \E i \in 1..Len(items["basic"]) :
          /\ NonBlank(items["basic"][i].name)
          /\ ~NonBlank(items["basic"][i].code)
          /\ \A k \in 1..Len(hidden["basic"].val) :
                hidden["basic"].val[k].val.name # Trim(items["basic"][i].name)

\* C7: a serialization of a section that follows another one with no add,
\* remove or edit in between writes the same text into the hidden field, and
\* for the basic components leaves the total and the signal as they were.
C7_SecondSerializationSame ==
    [][\A s \in Sections :
          (/\ SerializedBy(lastEvent, s, items[s])
           /\ \/ lastEvent'.kind = "submit"
              \/ lastEvent'.kind = "hiddenChange"
                 /\ s \in {"basic", "allowances", "reliefs"})
          => /\ hidden'[s] = hidden[s]
             /\ s = "basic" => totalText' = totalText /\ totalClass' = totalClass
      ]_vars

\* a submit has found every section filled and has written what was there
C7_SubmitWroteTheSame ==
    /\ lastEvent.kind = "submit"
    /\ \A s \in Sections : Len(items[s]) > 0 /\ hidden[s].val # << >>
    /\ prevHidden = hidden

\* the fields of one group of an allowance or relief entry
PercentageGroup == {"percentage", "based_on"}

FixedGroup == {"fixed_amount"}

\* C8: in a canonical form written out, an allowance or relief entry of type
\* 'fixed' carries no field of the percentage group, one of type 'percentage'
\* carries no fixed_amount, and only a 'percentage_plus_fixed' relief can
\* carry fields of both groups.
C8_GroupsFollowType ==
    /\ SerializedBy(lastEvent, "allowances", items["allowances"]) =>
          \A k \in 1..Len(hidden["allowances"].val) :
              LET e == hidden["allowances"].val[k]
              IN  /\ e.calculation_type = "fixed" =>
                         DOMAIN e \cap PercentageGroup = {}
                  /\ e.calculation_type = "percentage" =>
                         DOMAIN e \cap FixedGroup = {}
                  /\ DOMAIN e \cap PercentageGroup = {}
                         \/ DOMAIN e \cap FixedGroup = {}
    /\ SerializedBy(lastEvent, "reliefs", items["reliefs"]) =>
          \A k \in 1..Len(hidden["reliefs"].val) :
              LET e == hidden["reliefs"].val[k]
              IN  /\ e.formula_type = "fixed" =>
                         DOMAIN e \cap PercentageGroup = {}
                  /\ e.formula_type = "percentage" =>
                         DOMAIN e \cap FixedGroup = {}
                  /\ (DOMAIN e \cap PercentageGroup # {}
                         /\ DOMAIN e \cap FixedGroup # {})
                         => e.formula_type = "percentage_plus_fixed"

\* a named allowance of type 'fixed' whose percentage input still has a value
C8_FixedKeepsPercentage ==
    /\ SerializedBy(lastEvent, "allowances", items["allowances"])
    /\ \E i \in 1..Len(items["allowances"]) :
          /\ NonBlank(items["allowances"][i].name)
          /\ items["allowances"][i].calcType = "fixed"
          /\ items["allowances"][i].percentage # << >>
          /\ items["allowances"][i].basedOn # << >>

\* the event is a change of the type select of an allowance or a relief
IsTypeEdit(ev) ==
    /\ ev.kind = "edit"
    /\ \/ ev.sec = "allowances" /\ ev.field = "calcType"
       \/ ev.sec = "reliefs" /\ ev.field = "formulaType"

\* the step changes the type of the record whose type the last event changed
\* back to what it was before
TogglesBack ==
    /\ IsTypeEdit(lastEvent)
    /\ IsTypeEdit(lastEvent')
    /\ lastEvent'.sec = lastEvent.sec
    /\ lastEvent'.idx = lastEvent.idx
    /\ items'[lastEvent.sec][lastEvent.idx][lastEvent.field] = lastEvent.old

\* C9: changing the type of an allowance or relief and then changing it back
\* gives the canonical form there was before the first change, and a change
\* of type leaves the values of both subgroups in the record.
C9_ToggleAndBack ==
    /\ [][TogglesBack => hidden'[lastEvent.sec] = prevHidden[lastEvent.sec]]_vars
    /\ [][IsTypeEdit(lastEvent') =>
             \A f \in {"percentage", "basedOn", "fixedAmount"} :
                 items'[lastEvent'.sec][lastEvent'.idx][f]
                     = items[lastEvent'.sec][lastEvent'.idx][f]]_vars

\* the type of a saved record was changed and changed back: the canonical
\* form is again the saved one, and it was another one in between
C9_ToggledBack ==
    /\ IsTypeEdit(lastEvent)
    /\ rendered = SavedForm
    /\ hidden[lastEvent.sec] = rendered[lastEvent.sec]
    /\ prevHidden[lastEvent.sec] # hidden[lastEvent.sec]

\* the entries of a parsed input: the values of an object, the elements of
\* an array
EntriesOf(text) ==
    IF text.kind = "object" THEN [i \in 1..Len(text.val) |-> text.val[i].val]
    ELSE text.val

\* an input that does not parse, parses to a container of the other shape,
\* or parses to a container that holds null
Malformed(sec, text) ==
    \/ text.kind = "unparseable"
    \/ text.kind \in {"object", "array"}
       /\ \/ text.kind # (IF sec = "basic" THEN "object" ELSE "array")
          \/ \E i \in 1..Len(text.val) : "nodata" \in DOMAIN EntriesOf(text)[i]

\* the entries of the input of a section
InputEntries(text) ==
    IF text.kind \in {"object", "array"} THEN text.val ELSE << >>

\* what identifies entry e of the input in the record made from it: the
\* name, and for a tax bracket the rate
SameEntry(sec, e, item) ==
    CASE sec = "basic" -> item.name = e.val.name /\ item.code = e.val.code
      [] sec = "brackets" -> item.rate = NumberToString(e.rate)
      [] OTHER -> item.name = e.name

\* C10 (inputs of the section's shape): after the load, a section whose
\* input is empty or absent has one
\* default record outside edit mode and none in edit mode; a section whose
\* input holds n >= 1 entries has n records, in the order of the input.
C10_LoadedRecords ==
    lastEvent.kind = "load" =>
        \A s \in Sections :
            /\ (~Malformed(s, rendered[s]) /\ InputEntries(rendered[s]) = << >>)
                   => IF editMode THEN items[s] = << >>
                      ELSE /\ Len(items[s]) = 1
                           /\ items[s][1] = ItemOf(s, NoData, items[s][1].id)
            /\ (~Malformed(s, rendered[s]) /\ InputEntries(rendered[s]) # << >>)
                   => /\ Len(items[s]) = Len(InputEntries(rendered[s]))
                      /\ \A i \in 1..Len(items[s]) :
                            SameEntry(s, InputEntries(rendered[s])[i], items[s][i])

\* a load in edit mode: the basic components loaded from two entries, the
\* income items, whose input is empty, left without a record
C10_LoadedAndLeftEmpty ==
    /\ lastEvent.kind = "load"
    /\ editMode
    /\ Len(items["basic"]) = 2
    /\ rendered["income"] = EmptyText
    /\ items["income"] = << >>

\* C11 (as claimed): after the load, a section whose input does not parse,
\* has the other shape or holds a malformed element is empty but for the one
\* default record seeded outside edit mode.
C11_MalformedEndsEmpty ==
    lastEvent.kind = "load" =>
        \A s \in Sections :
            Malformed(s, rendered[s]) =>
                IF editMode THEN items[s] = << >>
                ELSE /\ Len(items[s]) = 1
                     /\ items[s][1] = ItemOf(s, NoData, items[s][1].id)

\* the text is `word` up to the case of its letters
SameIgnoringCase(text, word) ==
    /\ Len(text) = Len(word)
    /\ \A i \in 1..Len(word) :
           \/ text[i] = word[i]
           \/ /\ IndexIn(word[i], Lower) > 0
              /\ text[i] = Upper[IndexIn(word[i], Lower)]

\* the three sources of the lock state
FlagAffirmative == lockSignals.formFlag = "true"

InputAffirmative ==
    /\ lockSignals.input.present
    /\ \E word \in {<<"t", "r", "u", "e">>, <<"1">>, <<"o", "n">>} :
           SameIgnoringCase(lockSignals.input.value, word)

GlobalAffirmative == lockSignals.global = TRUE

\* C12: the lock state computed at initialization is true exactly when the
\* form flag is 'true', or the is_locked input holds 'true', '1' or 'on' in
\* any letter case, or the global flag is true; a present source that is
\* not affirmative does not keep a later one from locking.
C12_LockedIffAnySource ==
    lastEvent.kind = "load" =>
        (locked <=> (FlagAffirmative \/ InputAffirmative \/ GlobalAffirmative))

\* the form flag says 'false', the input says 'on', and the editor is locked
C12_FlagFalseInputOn ==
    /\ lastEvent.kind = "load"
    /\ lockSignals.formFlag = "false"
    /\ lockSignals.input = InputValue(<<"o", "n">>)
    /\ ~lockSignals.global
    /\ locked

\* C13: once the editor is locked, the only step taken is a submit, and the
\* records of every section (their order, identifiers and field values)
\* stay as they were: no add, remove, edit or hidden-field change is enabled,
\* the remove buttons being hidden and the controls disabled.
C13_LockedAllowsSubmitOnly ==
    [][locked => (items' = items /\ lastEvent'.kind = "submit")]_vars

\* a locked editor of a saved setting after a submit
C13_LockedAndSubmitted ==
    /\ locked
    /\ lastEvent.kind = "submit"
    /\ DisabledOrHidden(RemoveButton)
    /\ Len(items["basic"]) = 2
    /\ Len(items["brackets"]) > 0


\* C14: the lock state is set by the initialization, after all seven
\* sections were loaded, from the signals as they are then; once the page is
\* ready no add, remove, submit or change of a lock signal changes it.
C14_LockedSetOnce ==
    [][IF phase = "rendered"
       THEN /\ lastEvent'.kind = "load"
            /\ locked' = IsFormLocked(lockSignals)
            /\ items' = [s \in Sections |->
                            UpdateJSON(s, LoadAll(hidden, IsEditMode(hidden["basic"]),
                                                  Len(SectionOrder)).items[s]).items]
       ELSE locked' = locked]_vars

\* the signals came to say locked after an unlocked initialization, or
\* unlocked after a locked one
C14_SignalsChangedLater ==
    /\ lastEvent.kind = "signals"
    /\ locked # IsFormLocked(lockSignals)
    /\ Usable(AddButton) = ~locked

\* C15 (as claimed): when the initialization is done, the hidden field of
\* every section holds the serialization of the records the section has,
\* and the total display shows the total of the basic components, also for
\* a section whose rendered text was empty or malformed and also in edit
\* mode.
C15_LoadSerializesAll ==
    lastEvent.kind = "load" =>
        /\ \A s \in Sections : hidden[s] = UpdateJSON(s, items[s]).hidden
        /\ totalText = UpdateJSON("basic", items["basic"]).totalText

\* the identifiers of the records of all sections
IdsIn(its) ==
    UNION {{its[s][i].id : i \in 1..Len(its[s])} : s \in Sections}

RECURSIVE CountRecords(_, _)
CountRecords(its, secs) ==
    IF secs = {} THEN 0
    ELSE LET s == CHOOSE x \in secs : TRUE
         IN  Len(its[s]) + CountRecords(its, secs \ {s})

\* the records with their identifiers blanked
Renumbered(its) == [i \in 1..Len(its) |-> [its[i] EXCEPT !.id = 0]]

\* the keys of the entries of a hidden text
KeysOf(text) ==
    IF text.kind \in {"object", "array"}
    THEN UNION {DOMAIN EntriesOf(text)[i] : i \in 1..Len(text.val)}
    ELSE {}

\* C16: every step gives each record it adds an identifier greater than
\* every identifier handed out before, in any section and also after a
\* removal; the identifiers of the records present are pairwise distinct
\* across the sections; no canonical form has an identifier in it, and the
\* canonical forms are the same whatever the identifiers are.
C16_IdentifiersIncrease ==
    [][/\ \A id \in IdsIn(items') \ IdsIn(items) :
              id > componentCounter /\ id <= componentCounter'
       /\ \A id \in IdsIn(items) : id <= componentCounter
       /\ componentCounter' >= componentCounter
       /\ Cardinality(IdsIn(items')) = CountRecords(items', Sections)
       /\ \A s \in Sections :
              /\ ~("id" \in KeysOf(hidden'[s]))
              /\ UpdateJSON(s, Renumbered(items'[s])).hidden
                     = UpdateJSON(s, items'[s]).hidden]_vars

\* a record added after another one was removed: fewer records than
\* identifiers handed out, and the new record has the greatest one
C16_AddedAfterRemoval ==
    /\ lastEvent.kind = "add"
    /\ CountRecords(items, Sections) < componentCounter
    /\ items[lastEvent.sec][lastEvent.idx].id = componentCounter
    /\ \E s \in Sections \ {lastEvent.sec} : Len(items[s]) > 0

\* the sum of the percentages of the entries of a basic components object
RECURSIVE EntrySum(_)
EntrySum(pairs) ==
    IF pairs = << >> THEN 0
    ELSE pairs[1].val.percentage + EntrySum(Tail(pairs))

\* C17 (as claimed): after a submit that the gate let through, the
\* percentages of the entries of the basic components object written by
\* that submit add up to 100 within 0.01.
C17_AllowedSumsToHundred ==
    (lastEvent.kind = "submit" /\ submitResult.outcome = "allowed") =>
        /\ hidden["basic"].kind = "object"
        /\ Abs(EntrySum(hidden["basic"].val) - Hundred) <= Tolerance

\* C18 (as claimed): in the allowances canonical form written out by a
\* submit that the gate let through, every entry of type 'percentage'
\* carries percentage and based_on and no fixed_amount, and every entry of
\* type 'fixed' carries fixed_amount and neither percentage nor based_on.
C18_AllowanceGroupPopulated ==
    (lastEvent.kind = "submit" /\ submitResult.outcome = "allowed") =>
        \A k \in 1..Len(hidden["allowances"].val) :
            /\ hidden["allowances"].val[k].calculation_type = "percentage" =>
                   /\ PercentageGroup \subseteq DOMAIN hidden["allowances"].val[k]
                   /\ FixedGroup \cap DOMAIN hidden["allowances"].val[k] = {}
            /\ hidden["allowances"].val[k].calculation_type = "fixed" =>
                   /\ FixedGroup \subseteq DOMAIN hidden["allowances"].val[k]
                   /\ PercentageGroup \cap DOMAIN hidden["allowances"].val[k] = {}

\* C19 (as claimed): in the reliefs canonical form written out by a submit
\* that the gate let through, every entry whose formula type is not 'fixed'
\* carries percentage and based_on, and every entry whose formula type is
\* not 'percentage' carries fixed_amount.
C19_ReliefGroupsPresent ==
    (lastEvent.kind = "submit" /\ submitResult.outcome = "allowed") =>
        \A k \in 1..Len(hidden["reliefs"].val) :
            /\ hidden["reliefs"].val[k].formula_type # "fixed" =>
                   PercentageGroup \subseteq DOMAIN hidden["reliefs"].val[k]
            /\ hidden["reliefs"].val[k].formula_type # "percentage" =>
                   FixedGroup \subseteq DOMAIN hidden["reliefs"].val[k]

\* the positions of the entries of a tax brackets array whose limit is null
OpenEnded(brackets) ==
    {k \in 1..Len(brackets) : ~("limit" \in DOMAIN brackets[k])}

\* C20 (as claimed): a tax brackets canonical form written out has at most
\* one entry whose limit is null, every entry carries a rate, and it has an
\* entry for exactly the records whose rate parses as a number.
C20_OneOpenEndedBracket ==
    SerializedBy(lastEvent, "brackets", items["brackets"]) =>
        /\ Cardinality(OpenEnded(hidden["brackets"].val)) <= 1
        /\ \A k \in 1..Len(hidden["brackets"].val) :
               "rate" \in DOMAIN hidden["brackets"].val[k]
        /\ Len(hidden["brackets"].val)
               = Cardinality({k \in 1..Len(items["brackets"]) :
                                 ~ParseFloat(items["brackets"][k].rate).nan})

\* C21 (as claimed): a submit that the gate blocks leaves the records of
\* every section as they were and the page ready, and afterwards the
\* controls of the records still take edits, so that the total can be
\* corrected.
C21_BlockedCanBeCorrected ==
    [][(lastEvent'.kind = "submit" /\ submitResult'.outcome = "blocked") =>
           /\ items' = items
           /\ phase' = "ready"
           /\ ~(locked' /\ DisabledOrHidden(ItemInput))]_vars

\* a record with a non-blank name
Named(item) == NonBlank(item.name)

\* the order a record's order input stands for: the integer it parses to,
\* 1 when it does not parse
OrderEntered(item) ==
    IF ParseInt(item.order).nan THEN Unit ELSE ParseInt(item.order).v

\* C22 (as claimed): in the canonical form of the other deductions and of
\* the income items every entry carries order, which is the integer the
\* order input of its record parses to, and 1 when the input does not
\* parse.
C22_OrderAsEntered ==
    \A s \in {"other", "income"} :
        SerializedBy(lastEvent, s, items[s]) =>
            /\ Len(hidden[s].val) = Len(SelectSeq(items[s], Named))
            /\ \A k \in 1..Len(hidden[s].val) :
                   /\ "order" \in DOMAIN hidden[s].val[k]
                   /\ hidden[s].val[k].order
                          = OrderEntered(SelectSeq(items[s], Named)[k])

\* the key a basic components record derives
KeyOfRecord(item) == BasicKey(Trim(item.name))

\* record i is identified (name and code non-blank)
Counted(its, i) == NonBlank(its[i].name) /\ NonBlank(its[i].code)

\* the identified records that derive the key of record i
Colliding(its, i) ==
    {j \in 1..Len(its) : Counted(its, j) /\ KeyOfRecord(its[j]) = KeyOfRecord(its[i])}

\* the greatest of a non-empty set of positions
Last(positions) == CHOOSE j \in positions : \A k \in positions : k <= j

\* C23: in a basic components object written out, the key derived by
\* identified records holds exactly one entry, which carries the name, code
\* and percentage of the last of these records in section order, however
\* many records derive it.
C23_LastCollidingWins ==
    SerializedBy(lastEvent, "basic", items["basic"]) =>
        /\ hidden["basic"].kind = "object"
        /\ \A i \in 1..Len(items["basic"]) :
               Counted(items["basic"], i) =>
                   /\ Cardinality({k \in 1..Len(hidden["basic"].val) :
                          hidden["basic"].val[k].key = KeyOfRecord(items["basic"][i])}) = 1
                   /\ \A k \in 1..Len(hidden["basic"].val) :
                          hidden["basic"].val[k].key = KeyOfRecord(items["basic"][i]) =>
                              hidden["basic"].val[k].val =
                                  [name |-> Trim(items["basic"][Last(Colliding(items["basic"], i))].name),
                                   code |-> Trim(items["basic"][Last(Colliding(items["basic"], i))].code),
                                   percentage |-> PercentOrZero(
                                       items["basic"][Last(Colliding(items["basic"], i))].percentage)]

\* two identified records with different values derive one key, both are
\* in the section, and the object written has the one entry
C23_TwoRecordsOneKey ==
    /\ SerializedBy(lastEvent, "basic", items["basic"])
    /\ Len(items["basic"]) = 2
    /\ Colliding(items["basic"], 1) = {1, 2}
    /\ items["basic"][1].percentage # items["basic"][2].percentage
    /\ Len(hidden["basic"].val) = 1

\* the entries of the records of a list section, first record first
RECURSIVE EntriesInOrder(_, _)
EntriesInOrder(sec, its) ==
    IF its = << >> THEN << >>
    ELSE (IF IncludedIn(sec, Head(its)) THEN <<EntryOf(sec, Head(its))>> ELSE << >>)
         \o EntriesInOrder(sec, Tail(its))

\* C24: the removal of record i of a section leaves the records before i
\* in place and moves those after i up by one, all with their values; the
\* records of the other sections stay; the hidden field of the section then
\* holds the serialization of the records left.  After every step, the
\* entries of a list section written out stand in the order of their
\* records.
C24_RemovalIsPositional ==
    [][/\ lastEvent'.kind = "remove" =>
              /\ Len(items'[lastEvent'.sec]) = Len(items[lastEvent'.sec]) - 1
              /\ \A k \in 1..Len(items'[lastEvent'.sec]) :
                     items'[lastEvent'.sec][k] =
                         items[lastEvent'.sec][IF k < lastEvent'.idx THEN k ELSE k + 1]
              /\ \A s \in Sections \ {lastEvent'.sec} : items'[s] = items[s]
              /\ hidden'[lastEvent'.sec] =
                     UpdateJSON(lastEvent'.sec, items'[lastEvent'.sec]).hidden
       /\ \A s \in Sections \ {"basic"} :
              SerializedBy(lastEvent', s, items'[s]) =>
                  hidden'[s] = TextOfArray(EntriesInOrder(s, items'[s]))]_vars

\* the first of two allowances was removed: the second is now the first
C24_FirstOfTwoRemoved ==
    /\ lastEvent.kind = "remove"
    /\ lastEvent.sec = "allowances"
    /\ lastEvent.idx = 1
    /\ Len(items["allowances"]) = 1
    /\ Len(hidden["allowances"].val) = 1
    /\ hidden["allowances"].val[1].name = Trim(items["allowances"][1].name)

\* a statutory deduction with a non-blank name and a percentage that parses
StatutoryCounted(item) == NonBlank(item.name) /\ ~ParseFloat(item.percentage).nan

\* C25: the statutory deductions array written out has one entry for each
\* record whose name is non-blank and whose percentage parses, and no other;
\* the entry carries the trimmed name, is_active, the percentage and a
\* non-blank based_on, which is 'B' when the record's based-on is blank.
C25_StatutoryEntries ==
    SerializedBy(lastEvent, "statutory", items["statutory"]) =>
        /\ hidden["statutory"].kind = "array"
        /\ Len(hidden["statutory"].val)
               = Len(SelectSeq(items["statutory"], StatutoryCounted))
        /\ \A k \in 1..Len(hidden["statutory"].val) :
               /\ hidden["statutory"].val[k] =
                      [name |-> Trim(SelectSeq(items["statutory"], StatutoryCounted)[k].name),
                       is_active |-> SelectSeq(items["statutory"], StatutoryCounted)[k].active,
                       percentage |->
                           ParseFloat(SelectSeq(items["statutory"], StatutoryCounted)[k].percentage).v,
                       based_on |->
                           IF NonBlank(SelectSeq(items["statutory"], StatutoryCounted)[k].basedOn)
                           THEN Trim(SelectSeq(items["statutory"], StatutoryCounted)[k].basedOn)
                           ELSE <<"B">>]
               /\ NonBlank(hidden["statutory"].val[k].based_on)

\* a deduction whose based-on was cleared is written with based_on 'B'
C25_BlankBasedOnWritten ==
    /\ lastEvent.kind = "edit"
    /\ lastEvent.sec = "statutory"
    /\ lastEvent.field = "basedOn"
    /\ items["statutory"][1].basedOn = << >>
    /\ Len(hidden["statutory"].val) = 1
    /\ hidden["statutory"].val[1].based_on = <<"B">>

\* C26 (as claimed): the other deductions array written out has an entry
\* for exactly the records with a non-blank name; the entry carries
\* linked_to exactly when the link select of its record is not on None
\* (Manual), and never an empty one; after the load of a non-empty array of
\* named entries, the linked_to of every entry is the selection of its
\* record and the linked_to of the entry written out.
C26_LinkedToKept ==
    /\ SerializedBy(lastEvent, "other", items["other"]) =>
           /\ Len(hidden["other"].val) = Len(SelectSeq(items["other"], Named))
           /\ \A k \in 1..Len(hidden["other"].val) :
                  /\ ("linked_to" \in DOMAIN hidden["other"].val[k])
                         <=> (SelectSeq(items["other"], Named)[k].linkedTo # "")
                  /\ "linked_to" \in DOMAIN hidden["other"].val[k] =>
                         hidden["other"].val[k].linked_to # ""
    /\ (/\ lastEvent.kind = "load"
        /\ rendered["other"].kind = "array"
        /\ Len(rendered["other"].val) > 0) =>
           /\ Len(items["other"]) = Len(rendered["other"].val)
           /\ Len(hidden["other"].val) = Len(rendered["other"].val)
           /\ \A k \in 1..Len(rendered["other"].val) :
                  "linked_to" \in DOMAIN rendered["other"].val[k] =>
                      /\ items["other"][k].linkedTo = rendered["other"].val[k].linked_to
                      /\ "linked_to" \in DOMAIN hidden["other"].val[k]
                      /\ hidden["other"].val[k].linked_to
                             = rendered["other"].val[k].linked_to

\* elements a salary-setting form can hold: the controls of the records,
\* the hidden fields, the add, remove and submit buttons, and a textarea,
\* inputs of type submit and button, a cancel link button, a reset button
\* and a button of class btn-danger that is not a remove button
FormElements ==
    {ItemInput, ItemSelect, HiddenField, AddButton, RemoveButton, SubmitButton,
     Element("input", "number", FALSE, "control"),
     Element("input", "checkbox", FALSE, "control"),
     Element("textarea", "textarea", FALSE, "control"),
     Element("input", "submit", FALSE, "submit"),
     Element("input", "button", FALSE, "other"),
     Element("button", "button", FALSE, "other"),
     Element("button", "button", TRUE, "other"),
     Element("button", "reset", FALSE, "other")}

C28_GateAgreesWithSignal ==
    lastEvent.kind = "submit" =>
        ((submitResult.outcome = "allowed") <=> (totalClass = "percentage-valid"))

\* C29: an add, a remove or an edit in a section changes neither the
\* records nor the hidden field of any other section, and changes the total
\* display and its class only if the section is the basic components.
C29_OtherSectionsUntouched ==
    [][lastEvent'.kind \in {"add", "remove", "edit"} =>
           /\ \A s \in Sections \ {lastEvent'.sec} :
                  items'[s] = items[s] /\ hidden'[s] = hidden[s]
           /\ lastEvent'.sec # "basic" =>
                  totalText' = totalText /\ totalClass' = totalClass]_vars

\* an add in one section while the hidden field of another holds text that
\* is not the serialization of its records
C29_AddBesideStaleField ==
    /\ lastEvent.kind = "add"
    /\ lastEvent.sec # "brackets"
    /\ hidden["brackets"] = UnparseableText
    /\ hidden["brackets"] # UpdateJSON("brackets", items["brackets"]).hidden

\* the hidden texts a fresh editor writes out when it is initialized from
\* the texts and serializes every section with no edit in between
Reserialized(texts) ==
    [s \in Sections |->
        UpdateJSON(s, LoadAll(texts, IsEditMode(texts["basic"]),
                              Len(SectionOrder)).items[s]).hidden]

\* C30 (as claimed): the seven canonical forms a submit has written out are
\* a fixed point of load-then-serialize: a fresh editor initialized from
\* them writes out the same seven forms.
C30_ReloadFixedPoint ==
    lastEvent.kind = "submit" => Reserialized(hidden) = hidden


\* the Basic Components input is non-empty and not exactly '{}'
BasicInputGiven(texts) ==
    /\ texts["basic"] # EmptyText
    /\ texts["basic"] # TextOfObject(<< >>)

\* an input without entries to load: empty, not parsing, an empty container,
\* or an object where the section takes a list
WithoutEntries(sec, text) ==
    \/ text.kind \in {"empty", "unparseable"}
    \/ text.val = << >>
    \/ sec # "basic" /\ text.kind = "object"

FirstThree == {"basic", "allowances", "reliefs"}

\* C32: a change event on a hidden field writes the canonical forms of the
\* basic components, the allowances and the reliefs from the records as
\* they are (whatever text those three fields held), leaves the records of
\* every section and the record counter as they were, leaves the text put
\* into the changed field in place when it is one of the other four, and
\* leaves the remaining hidden fields unchanged.
C32_HiddenChangeEffect ==
    [][lastEvent'.kind = "hiddenChange" =>
           /\ \A s \in FirstThree : hidden'[s] = UpdateJSON(s, items[s]).hidden
           /\ items' = items
           /\ componentCounter' = componentCounter
           /\ lastEvent'.sec \notin FirstThree =>
                  /\ hidden'[lastEvent'.sec] \in HiddenInputs
                  /\ hidden'[lastEvent'.sec] # hidden[lastEvent'.sec]
           /\ \A s \in Sections \ (FirstThree \cup {lastEvent'.sec}) :
                  hidden'[s] = hidden[s]]_vars

\* a list was put into the hidden field of the allowances, which hold a
\* record, after one was put into that of the tax brackets: the allowances
\* field holds the form of its records again, the tax brackets field the
\* list, and the tax brackets are the records loaded before
C32_PastedOverAndKept ==
    /\ lastEvent.kind = "hiddenChange"
    /\ lastEvent.sec = "allowances"
    /\ Len(items["allowances"]) > 0
    /\ hidden["allowances"] = UpdateJSON("allowances", items["allowances"]).hidden
    /\ hidden["allowances"] \notin HiddenInputs
    /\ hidden["brackets"] = PastedList
    /\ rendered = SavedForm
    /\ Len(items["brackets"]) = Len(rendered["brackets"].val)

====
